---- MODULE Spec2Model ----
(***************************************************************************)
(* Model of preswald's environment-adaptive service layer:                 *)
(*   preswald/engine/service.py         (detection, ServiceImpl, facade)   *)
(*   preswald/engine/script_service.py  (ScriptService, headless variant)  *)
(* Python values are represented by strings; a dict is a function whose    *)
(* domain is its key set; None is the string "None".                       *)
(***************************************************************************)
EXTENDS Integers, Sequences, FiniteSets, TLC

VARIABLES
    sys_modules,      \* loaded modules the detection looks at: [pyodide, main]
    environ,          \* os.environ: [PRESWALD_HEADLESS, PRESWALD_SCRIPT_PATH]
    stack,            \* call stack at the import of engine/service.py, innermost first
    import_state,     \* engine/service.py: "pending", "ok" or the exception its import raised
    IS_PYODIDE,       \* service.py module global
    IS_HEADLESS,      \* service.py module global
    ServiceImpl,      \* service.py module global: the selected implementation class
    _instance,        \* ScriptService._instance: 0 is None, else a reference into heap
    heap,             \* the ScriptService objects constructed so far, by reference
    impl_instance,    \* the singleton of the Server/Virtual implementation: 0 is None
    ret,              \* what the most recent call gave back to its caller
    shutdown_logs,    \* number of "Script service shutting down..." log records
    init_called,      \* history: some initialize() call has been made
    handed,           \* history: references that initialize()/get_instance() returned
    last_write,       \* history: per object and id, the value of the latest write that took effect
    last_call_write,  \* history: per object and id, the value the latest writing call carried
    tpc,              \* per thread: position inside the call it is making
    targ              \* per thread: the arguments and locals of its call

vars == <<sys_modules, environ, stack, import_state, IS_PYODIDE, IS_HEADLESS,
          ServiceImpl, _instance, heap, impl_instance, ret, shutdown_logs,
          init_called, handed, last_write, last_call_write, tpc, targ>>

(***************************************************************************)
(* Bounds of the model.                                                    *)
(***************************************************************************)
MaxHistory == 2
MaxShutdownLogs == 2
NumThreads == 2
NumCallers == 3

(***************************************************************************)
(* Python values.                                                          *)
(***************************************************************************)
None == "None"
EmptyDict == [k \in {} |-> None]
DictGet(d, k, default) == IF k \in DOMAIN d THEN d[k] ELSE default
DictSet(d, k, v) == [x \in DOMAIN d \cup {k} |-> IF x = k THEN v ELSE d[x]]

Ids == {"a", "b"}
Values == {"1", "2"}

\* str(v): "<raises>" stands for an exception raised by the conversion.
Raises == "<raises>"
\* len(v) as text; only the list value has a length.
PyLen(v) == IF v = "[r1,r2,r3]" THEN "3" ELSE IF v = "[]" THEN "0" ELSE Raises

StrComponent == [py |-> "str", text |-> "<b>hi</b>"]
Dict(d) == [py |-> "dict", d |-> d]

Components ==
    { StrComponent,
      Dict([type |-> "slider", id |-> "a", label |-> "Speed", value |-> "1"]),
      Dict([type |-> "table", id |-> "b", value |-> "2", title |-> "Results", data |-> None]),
      Dict([type |-> "custom", id |-> "b"]),
      Dict([type |-> "selectbox", label |-> "Pick", value |-> "1"]) }

StatesDicts ==
    { [a |-> "1", b |-> "2"], [a |-> "2"], [b |-> "1"], EmptyDict }

Messages ==
    { [type |-> "component_update", states |-> s] : s \in StatesDicts }
    \cup { [type |-> "component_update"], [type |-> "ping", states |-> [a |-> "2"]],
           [states |-> [a |-> "1"]] }

ClientIds == {"c1"}

(***************************************************************************)
(* Paths and the data-access collaborator.                                 *)
(***************************************************************************)
ScriptPaths == {None, "/app/hello.py", "/job/run.py"}

dirname(p) ==
    CASE p = "/app/hello.py" -> "/app"
      [] p = "/job/run.py" -> "/job"
      [] OTHER -> ""

path_join(d, f) == <<d, f>>

NoDataManager == [kind |-> None, preswald_path |-> <<>>, secrets_path |-> <<>>]

\* The configuration files on disk that load; /job holds a broken one.
LoadableConfigs == { path_join("/app", "preswald.toml") }

\* DataManager(preswald_path=..., secrets_path=...): raises on a configuration
\* that does not load.
DataManager(preswald_path, secrets_path) ==
    IF preswald_path \in LoadableConfigs
    THEN [kind |-> "DataManager", preswald_path |-> preswald_path,
          secrets_path |-> secrets_path]
    ELSE [kind |-> Raises, preswald_path |-> <<>>, secrets_path |-> <<>>]

\* DataManager()
EmptyDataManager == [kind |-> "DataManager", preswald_path |-> <<>>, secrets_path |-> <<>>]

(***************************************************************************)
(* ScriptService objects.                                                  *)
(***************************************************************************)
NoLine == <<>>
RaisesLine == <<Raises>>

Truthy(v) == v # None /\ v # "" /\ v # "0"

\* ScriptService.__init__; _lock is 0 when free, else the thread that holds it
ScriptService_init ==
    [cls |-> "ScriptService",
     _component_states |-> EmptyDict,
     _lock |-> 0,
     _rendered_components |-> <<>>,
     data_manager |-> NoDataManager,
     branding_manager |-> None,
     _script_path |-> None,
     _is_shutting_down |-> FALSE,
     websocket_connections |-> EmptyDict,
     script_runners |-> EmptyDict]

\* _initialize_data_manager without its try/except
_initialize_data_manager_unguarded(self, script_path) ==
    LET script_dir == dirname(script_path)
        dm == DataManager(path_join(script_dir, "preswald.toml"),
                          path_join(script_dir, "secrets.toml"))
    IN  IF dm.kind # Raises
        THEN [self |-> [self EXCEPT !.data_manager = dm], exc |-> "", log |-> ""]
        ELSE [self |-> self, exc |-> "Exception", log |-> ""]

\* ScriptService._initialize_data_manager: [self, exc, log]
_initialize_data_manager(self, script_path) ==
    LET script_dir == dirname(script_path)
        preswald_path == path_join(script_dir, "preswald.toml")
        secrets_path == path_join(script_dir, "secrets.toml")
        dm == DataManager(preswald_path, secrets_path)
    IN  IF dm.kind # Raises
        THEN [self |-> [self EXCEPT !.data_manager = dm], exc |-> "", log |-> ""]
        ELSE [self |-> [self EXCEPT !.data_manager = EmptyDataManager],
              exc |-> "", log |-> "error"]

\* initialize without the test of cls._instance
initialize_rebuilds(cur, h, script_path) ==
    LET ref == Len(h) + 1
        made == IF Truthy(script_path)
                THEN _initialize_data_manager(
                         [ScriptService_init EXCEPT !._script_path = script_path],
                         script_path).self
                ELSE ScriptService_init
    IN  [cls_instance |-> ref, heap |-> Append(h, made), outcome |-> "return",
         inst |-> ref, exc |-> "", log |-> ""]

\* initialize with lines 28-30 outside the test of cls._instance
initialize_reapplies(cur, h, script_path) ==
    LET ref == IF cur = 0 THEN Len(h) + 1 ELSE cur
        h1 == IF cur = 0 THEN Append(h, ScriptService_init) ELSE h
    IN  [cls_instance |-> ref,
         heap |-> IF Truthy(script_path)
                  THEN [h1 EXCEPT ![ref] =
                           _initialize_data_manager(
                               [@ EXCEPT !._script_path = script_path], script_path).self]
                  ELSE h1,
         outcome |-> "return", inst |-> ref, exc |-> "", log |-> ""]

\* ScriptService.initialize on the class state (cur = cls._instance, h = the objects):
\* [cls_instance, heap, outcome, inst, exc, log]
initialize(cur, h, script_path) ==
    IF cur = 0
    THEN LET ref == Len(h) + 1
             made == ScriptService_init
         IN  IF Truthy(script_path)
             THEN LET r == _initialize_data_manager(
                               [made EXCEPT !._script_path = script_path],
                               script_path)
                  IN  [cls_instance |-> ref, heap |-> Append(h, r.self),
                       outcome |-> IF r.exc = "" THEN "return" ELSE "raise",
                       inst |-> IF r.exc = "" THEN ref ELSE 0,
                       exc |-> r.exc, log |-> r.log]
             ELSE [cls_instance |-> ref, heap |-> Append(h, made),
                   outcome |-> "return", inst |-> ref, exc |-> "", log |-> ""]
    ELSE [cls_instance |-> cur, heap |-> h, outcome |-> "return", inst |-> cur,
          exc |-> "", log |-> ""]

\* ScriptService.get_instance: [outcome, inst, exc]
get_instance(cur) ==
    IF cur = 0
    THEN [outcome |-> "raise", inst |-> 0, exc |-> "RuntimeError"]
    ELSE [outcome |-> "return", inst |-> cur, exc |-> ""]

\* ScriptService._print_component: the line printed, or RaisesLine
_print_component(component) ==
    IF component.py = "str" THEN <<"[html]", component.text>>
    ELSE IF component.py # "dict" THEN <<"[unknown]", component.text>>
    ELSE
    LET d == component.d
        component_type == DictGet(d, "type", None)
    IN  CASE component_type = "text" ->
                <<"[text]", DictGet(d, "markdown", "")>>
          [] component_type = "slider" ->
                <<"[slider]", DictGet(d, "label", ""), ":", DictGet(d, "value", "")>>
          [] component_type = "plot" ->
                <<"[plot]", "Plot would be displayed in browser mode">>
          [] component_type = "table" ->
                LET n == PyLen(DictGet(d, "data", "[]"))
                IN  IF n = Raises THEN RaisesLine
                    ELSE <<"[table]", DictGet(d, "title", "Table"), "(", n, "rows)">>
          [] component_type = "checkbox" ->
                <<"[checkbox]", DictGet(d, "label", ""), ":",
                  IF Truthy(DictGet(d, "value", "")) THEN "checked" ELSE "unchecked">>
          [] component_type = "selectbox" ->
                <<"[selectbox]", DictGet(d, "label", ""), ":", DictGet(d, "value", "")>>
          [] OTHER ->
                <<"[", component_type, "]", "Component ID:", DictGet(d, "id", "unknown")>>

HasIdAndValue(component) ==
    component.py = "dict" /\ "id" \in DOMAIN component.d /\ "value" \in DOMAIN component.d

\* append_component with "id" in component or "value" in component
append_component_or(self, component) ==
    LET recorded == [self EXCEPT !._rendered_components = Append(@, component)]
        line == _print_component(component)
    IN  IF line = RaisesLine
        THEN [self |-> recorded, outcome |-> "return", exc |-> "", out |-> NoLine,
              log |-> "error"]
        ELSE IF component.py = "dict"
                /\ ("id" \in DOMAIN component.d \/ "value" \in DOMAIN component.d)
        THEN [self |-> [recorded EXCEPT !._component_states =
                            DictSet(@, DictGet(component.d, "id", None),
                                    DictGet(component.d, "value", None))],
              outcome |-> "return", exc |-> "", out |-> line, log |-> ""]
        ELSE [self |-> recorded, outcome |-> "return", exc |-> "", out |-> line,
              log |-> ""]

\* append_component without its try/except
append_component_unguarded(self, component) ==
    LET recorded == [self EXCEPT !._rendered_components = Append(@, component)]
        line == _print_component(component)
    IN  IF line = RaisesLine
        THEN [self |-> recorded, outcome |-> "raise", exc |-> "TypeError", out |-> NoLine,
              log |-> ""]
        ELSE IF HasIdAndValue(component)
        THEN [self |-> [recorded EXCEPT !._component_states =
                            DictSet(@, component.d.id, component.d.value)],
              outcome |-> "return", exc |-> "", out |-> line, log |-> ""]
        ELSE [self |-> recorded, outcome |-> "return", exc |-> "", out |-> line,
              log |-> ""]

\* append_component that records the component only after it was printed
append_component_records_after_print(self, component) ==
    LET recorded == [self EXCEPT !._rendered_components = Append(@, component)]
        line == _print_component(component)
    IN  IF line = RaisesLine
        THEN [self |-> self, outcome |-> "return", exc |-> "", out |-> NoLine,
              log |-> "error"]
        ELSE IF HasIdAndValue(component)
        THEN [self |-> [recorded EXCEPT !._component_states =
                            DictSet(@, component.d.id, component.d.value)],
              outcome |-> "return", exc |-> "", out |-> line, log |-> ""]
        ELSE [self |-> recorded, outcome |-> "return", exc |-> "", out |-> line,
              log |-> ""]

\* append_component that updates the store before it prints
append_component_writes_first(self, component) ==
    LET recorded == [self EXCEPT !._rendered_components = Append(@, component)]
        stored == IF HasIdAndValue(component)
                  THEN [recorded EXCEPT !._component_states =
                            DictSet(@, component.d.id, component.d.value)]
                  ELSE recorded
        line == _print_component(component)
    IN  IF line = RaisesLine
        THEN [self |-> stored, outcome |-> "return", exc |-> "", out |-> NoLine,
              log |-> "error"]
        ELSE [self |-> stored, outcome |-> "return", exc |-> "", out |-> line,
              log |-> ""]

\* ScriptService.append_component: [self, outcome, exc, out, log]
append_component(self, component) ==
    LET recorded == [self EXCEPT !._rendered_components = Append(@, component)]
        line == _print_component(component)
    IN  IF line = RaisesLine
        THEN [self |-> recorded, outcome |-> "return", exc |-> "", out |-> NoLine,
              log |-> "error"]
        ELSE IF HasIdAndValue(component)
        THEN [self |-> [recorded EXCEPT !._component_states =
                            DictSet(@, component.d.id, component.d.value)],
              outcome |-> "return", exc |-> "", out |-> line, log |-> ""]
        ELSE [self |-> recorded, outcome |-> "return", exc |-> "", out |-> line,
              log |-> ""]

\* ScriptService.get_rendered_components
get_rendered_components(self) == [rows |-> self._rendered_components]

\* ScriptService.get_component_state
get_component_state(self, component_id, default) ==
    DictGet(self._component_states, component_id, default)

\* with self._lock: entered without waiting for the holder
acquirable_always(self) == TRUE

\* with self._lock: the block is entered only while no thread holds the lock
acquirable(self) == self._lock = 0

\* clear_components that empties the state store as well
clear_components_and_states(self) ==
    [self EXCEPT !._rendered_components = <<>>, !._component_states = EmptyDict]

\* ScriptService.clear_components
clear_components(self) == [self EXCEPT !._rendered_components = <<>>]

\* The loop of handle_client_message over states.items()
RECURSIVE UpsertAll(_, _)
UpsertAll(component_states, states) ==
    IF DOMAIN states = {} THEN component_states
    ELSE LET component_id == CHOOSE k \in DOMAIN states : TRUE
             rest == [k \in DOMAIN states \ {component_id} |-> states[k]]
         IN  UpsertAll(DictSet(component_states, component_id, states[component_id]),
                       rest)

\* handle_client_message that keeps the value an id already has
handle_client_message_keeps_old(self, client_id, message) ==
    IF DictGet(message, "type", None) = "component_update"
    THEN LET states == DictGet(message, "states", EmptyDict)
         IN  [self EXCEPT !._component_states =
                 [k \in DOMAIN @ \cup DOMAIN states |->
                     IF k \in DOMAIN @ THEN @[k] ELSE states[k]]]
    ELSE self

\* handle_client_message without the test of the message type
handle_client_message_any_type(self, client_id, message) ==
    [self EXCEPT !._component_states =
        UpsertAll(@, DictGet(message, "states", EmptyDict))]

\* ScriptService.handle_client_message
handle_client_message(self, client_id, message) ==
    IF DictGet(message, "type", None) = "component_update"
    THEN [self EXCEPT !._component_states =
              UpsertAll(@, DictGet(message, "states", EmptyDict))]
    ELSE self

\* ScriptService.shutdown
shutdown(self) == [self EXCEPT !._is_shutting_down = TRUE]

\* ScriptService.register_client / unregister_client: the value returned
register_client(self, client_id) == None
unregister_client(self, client_id) == None

(***************************************************************************)
(* engine/service.py: detection at import, and the facade.                 *)
(***************************************************************************)
MainFile == "/site-packages/preswald/main.py"
Frame(name, file) == [name |-> name, co_filename |-> file]
ServiceFrame == Frame("preswald.engine.service", "/site-packages/preswald/engine/service.py")

\* Call stacks at the import, innermost frame first.
Stacks ==
    { \* python hello.py
      <<ServiceFrame, Frame("__main__", "/app/hello.py")>>,
      \* the preswald command: its entry script imports preswald.main
      <<ServiceFrame, Frame("preswald.main", MainFile), Frame("__main__", "/bin/preswald")>>,
      \* python preswald/main.py
      <<ServiceFrame, Frame("__main__", MainFile)>>,
      \* an embedding host: no __main__ frame
      <<ServiceFrame, Frame("host.loader", "/host/loader.py")>> }

\* sys.modules.get('preswald.main'): "absent", or the module's __file__ (None when unset)
MainModules == {"absent", MainFile, None}
HeadlessValues == {"unset", "1", "true"}

\* The while loop over the frames: "found", "none", or "KeyError" for the failed
\* lookup sys.modules['preswald.main'].
RECURSIVE WalkFrames(_, _)
WalkFrames(frames, main) ==
    IF frames = <<>> THEN "none"
    ELSE LET frame == Head(frames)
         IN  IF frame.name = "__main__"
             THEN IF main = "absent" THEN "KeyError"
                  ELSE IF frame.co_filename # main THEN "found"
                  ELSE WalkFrames(Tail(frames), main)
             ELSE WalkFrames(Tail(frames), main)

\* The module body of engine/service.py: [state, IS_PYODIDE, IS_HEADLESS, ServiceImpl]
Detect(modules, env, frames) ==
    LET is_pyodide == modules.pyodide
        env_headless == env.PRESWALD_HEADLESS = "1"
        walk == IF ~env_headless /\ ~is_pyodide
                THEN WalkFrames(frames, modules.main) ELSE "skipped"
        is_headless == env_headless \/ walk = "found"
    IN  IF walk = "KeyError"
        THEN [state |-> "KeyError", IS_PYODIDE |-> is_pyodide,
              IS_HEADLESS |-> is_headless, ServiceImpl |-> None]
        ELSE [state |-> "ok", IS_PYODIDE |-> is_pyodide, IS_HEADLESS |-> is_headless,
              ServiceImpl |-> IF is_pyodide THEN "VirtualPreswaldService"
                              ELSE IF is_headless THEN "ScriptService"
                              ELSE "ServerPreswaldService"]

\* The Server and Virtual implementations' initialize / get_instance.
OtherService(cls) == [cls |-> cls]

impl_initialize(cls, cur, h, script_path) ==
    IF cur = 0
    THEN [impl_instance |-> Len(h) + 1, heap |-> Append(h, OtherService(cls)),
          outcome |-> "return", inst |-> Len(h) + 1, exc |-> "", log |-> ""]
    ELSE [impl_instance |-> cur, heap |-> h, outcome |-> "return", inst |-> cur,
          exc |-> "", log |-> ""]

impl_get_instance(cur) ==
    IF cur = 0
    THEN [outcome |-> "raise", inst |-> 0, exc |-> "RuntimeError"]
    ELSE [outcome |-> "return", inst |-> cur, exc |-> ""]

\* The facade with the implementation looked up again from the current signals
PreswaldService_initialize_redetects(impl, cur, other, h, script_path) ==
    LET now == Detect(sys_modules, environ, stack).ServiceImpl
    IN  IF now = "ScriptService"
        THEN LET r == initialize(cur, h, script_path)
             IN  [cls_instance |-> r.cls_instance, impl_instance |-> other, heap |-> r.heap,
                  outcome |-> r.outcome, inst |-> r.inst, exc |-> r.exc, log |-> r.log]
        ELSE LET r == impl_initialize(now, other, h, script_path)
             IN  [cls_instance |-> cur, impl_instance |-> r.impl_instance, heap |-> r.heap,
                  outcome |-> r.outcome, inst |-> r.inst, exc |-> r.exc, log |-> r.log]

\* PreswaldService.initialize: [cls_instance, impl_instance, heap, outcome, inst, exc, log]
PreswaldService_initialize(impl, cur, other, h, script_path) ==
    IF impl = "ScriptService"
    THEN LET r == initialize(cur, h, script_path)
         IN  [cls_instance |-> r.cls_instance, impl_instance |-> other, heap |-> r.heap,
              outcome |-> r.outcome, inst |-> r.inst, exc |-> r.exc, log |-> r.log]
    ELSE LET r == impl_initialize(impl, other, h, script_path)
         IN  [cls_instance |-> cur, impl_instance |-> r.impl_instance, heap |-> r.heap,
              outcome |-> r.outcome, inst |-> r.inst, exc |-> r.exc, log |-> r.log]

\* PreswaldService.get_instance
PreswaldService_get_instance(impl, cur, other) ==
    IF impl = "ScriptService" THEN get_instance(cur) ELSE impl_get_instance(other)

(***************************************************************************)
(* State machine.                                                          *)
(***************************************************************************)
Threads == 1..NumThreads
Callers == 1..NumCallers

Ret(op, outcome, inst, exc, out, log) ==
    [op |-> op, outcome |-> outcome, inst |-> inst, exc |-> exc, out |-> out, log |-> log]

NoCall == Ret("", "", 0, "", NoLine, "")

Signals(modules, env, frames) ==
    /\ sys_modules = modules
    /\ environ = env
    /\ stack = frames

\* The process before preswald is imported.
Fresh ==
    /\ import_state = "pending"
    /\ IS_PYODIDE = FALSE
    /\ IS_HEADLESS = FALSE
    /\ ServiceImpl = None
    /\ _instance = 0
    /\ heap = <<>>
    /\ impl_instance = 0
    /\ ret = NoCall
    /\ shutdown_logs = 0
    /\ init_called = FALSE
    /\ handed = {}
    /\ last_write = <<>>
    /\ last_call_write = <<>>
    /\ tpc = [t \in Threads \cup Callers |-> "idle"]
    /\ targ = [t \in Threads \cup Callers |-> [script_path |-> None]]

\* A script run headless: python hello.py with PRESWALD_HEADLESS=1.
Init ==
    /\ Signals([pyodide |-> FALSE, main |-> MainFile],
               [PRESWALD_HEADLESS |-> "1"],
               <<ServiceFrame, Frame("__main__", "/app/hello.py")>>)
    /\ Fresh

\* Every combination of the ambient signals.
InitDetect ==
    /\ \E p \in BOOLEAN, m \in MainModules, e \in HeadlessValues, f \in Stacks :
          Signals([pyodide |-> p, main |-> m], [PRESWALD_HEADLESS |-> e], f)
    /\ Fresh

Ready == import_state = "ok"
Holds(i) == i \in handed /\ heap[i].cls = "ScriptService"

\* import preswald.engine.service
ImportService ==
    /\ import_state = "pending"
    /\ LET r == Detect(sys_modules, environ, stack)
       IN  /\ import_state' = r.state
           /\ IS_PYODIDE' = r.IS_PYODIDE
           /\ IS_HEADLESS' = r.IS_HEADLESS
           /\ ServiceImpl' = r.ServiceImpl
    /\ UNCHANGED <<sys_modules, environ, stack, _instance, heap, impl_instance, ret,
                   shutdown_logs, init_called, handed, last_write, last_call_write, tpc, targ>>

Constructed(h, history) == IF Len(h) > Len(heap) THEN Append(history, EmptyDict) ELSE history

\* ScriptService.get_instance()
GetInstance ==
    /\ Ready
    /\ LET r == get_instance(_instance)
       IN  /\ ret' = Ret("ScriptService.get_instance", r.outcome, r.inst, r.exc, NoLine, "")
           /\ handed' = IF r.outcome = "return" THEN handed \cup {r.inst} ELSE handed
    /\ UNCHANGED <<sys_modules, environ, stack, import_state, IS_PYODIDE, IS_HEADLESS,
                   ServiceImpl, _instance, heap, impl_instance, shutdown_logs,
                   init_called, last_write, last_call_write, tpc, targ>>

\* PreswaldService.initialize(script_path)
FacadeInitialize(script_path) ==
    /\ Ready
    /\ LET r == PreswaldService_initialize(ServiceImpl, _instance, impl_instance, heap,
                                           script_path)
       IN  /\ _instance' = r.cls_instance
           /\ impl_instance' = r.impl_instance
           /\ heap' = r.heap
           /\ ret' = Ret("PreswaldService.initialize", r.outcome, r.inst, r.exc, NoLine, r.log)
           /\ handed' = IF r.outcome = "return" THEN handed \cup {r.inst} ELSE handed
           /\ last_write' = Constructed(r.heap, last_write)
           /\ last_call_write' = Constructed(r.heap, last_call_write)
    /\ init_called' = TRUE
    /\ UNCHANGED <<sys_modules, environ, stack, import_state, IS_PYODIDE, IS_HEADLESS,
                   ServiceImpl, shutdown_logs, tpc, targ>>

\* PreswaldService.get_instance()
FacadeGetInstance ==
    /\ Ready
    /\ LET r == PreswaldService_get_instance(ServiceImpl, _instance, impl_instance)
       IN  /\ ret' = Ret("PreswaldService.get_instance", r.outcome, r.inst, r.exc, NoLine, "")
           /\ handed' = IF r.outcome = "return" THEN handed \cup {r.inst} ELSE handed
    /\ UNCHANGED <<sys_modules, environ, stack, import_state, IS_PYODIDE, IS_HEADLESS,
                   ServiceImpl, _instance, heap, impl_instance, shutdown_logs,
                   init_called, last_write, last_call_write, tpc, targ>>

\* service.append_component(component)
AppendComponent(i, component) ==
    /\ Ready
    /\ Holds(i)
    /\ Len(heap[i]._rendered_components) < MaxHistory
    /\ LET r == append_component(heap[i], component)
       IN  /\ heap' = [heap EXCEPT ![i] = r.self]
           /\ ret' = Ret("append_component", r.outcome, i, r.exc, r.out, r.log)
           /\ last_write' =
                 IF HasIdAndValue(component) /\ _print_component(component) # RaisesLine
                 THEN [last_write EXCEPT ![i] = DictSet(@, component.d.id, component.d.value)]
                 ELSE last_write
           /\ last_call_write' =
                 IF HasIdAndValue(component)
                 THEN [last_call_write EXCEPT ![i] =
                          DictSet(@, component.d.id, component.d.value)]
                 ELSE last_call_write
    /\ UNCHANGED <<sys_modules, environ, stack, import_state, IS_PYODIDE, IS_HEADLESS,
                   ServiceImpl, _instance, impl_instance, shutdown_logs, init_called,
                   handed, tpc, targ>>

\* service.clear_components()
ClearComponents(i) ==
    /\ Ready
    /\ Holds(i)
    /\ heap' = [heap EXCEPT ![i] = clear_components(@)]
    /\ ret' = Ret("clear_components", "return", i, "", NoLine, "")
    /\ UNCHANGED <<sys_modules, environ, stack, import_state, IS_PYODIDE, IS_HEADLESS,
                   ServiceImpl, _instance, impl_instance, shutdown_logs, init_called,
                   handed, last_write, last_call_write, tpc, targ>>

\* history after a component_update: every id of its states mapping is written
Written(history, message) ==
    IF DictGet(message, "type", None) = "component_update" /\ "states" \in DOMAIN message
    THEN [k \in DOMAIN history \cup DOMAIN message.states |->
             IF k \in DOMAIN message.states THEN message.states[k] ELSE history[k]]
    ELSE history

\* await service.handle_client_message(client_id, message)
HandleClientMessage(i, client_id, message) ==
    /\ Ready
    /\ Holds(i)
    /\ heap' = [heap EXCEPT ![i] = handle_client_message(@, client_id, message)]
    /\ ret' = Ret("handle_client_message", "return", i, "", NoLine, "")
    /\ last_write' = [last_write EXCEPT ![i] = Written(@, message)]
    /\ last_call_write' = [last_call_write EXCEPT ![i] = Written(@, message)]
    /\ UNCHANGED <<sys_modules, environ, stack, import_state, IS_PYODIDE, IS_HEADLESS,
                   ServiceImpl, _instance, impl_instance, shutdown_logs, init_called,
                   handed, tpc, targ>>

\* await service.register_client(client_id)
RegisterClient(i, client_id) ==
    /\ Ready
    /\ Holds(i)
    /\ ret' = Ret("register_client", "return", i, "", NoLine, "")
    /\ register_client(heap[i], client_id) = None
    /\ UNCHANGED <<sys_modules, environ, stack, import_state, IS_PYODIDE, IS_HEADLESS,
                   ServiceImpl, _instance, heap, impl_instance, shutdown_logs,
                   init_called, handed, last_write, last_call_write, tpc, targ>>

\* await service.unregister_client(client_id)
UnregisterClient(i, client_id) ==
    /\ Ready
    /\ Holds(i)
    /\ ret' = Ret("unregister_client", "return", i, "", NoLine, "")
    /\ unregister_client(heap[i], client_id) = None
    /\ UNCHANGED <<sys_modules, environ, stack, import_state, IS_PYODIDE, IS_HEADLESS,
                   ServiceImpl, _instance, heap, impl_instance, shutdown_logs,
                   init_called, handed, last_write, last_call_write, tpc, targ>>

\* await service.shutdown()
Shutdown(i) ==
    /\ Ready
    /\ Holds(i)
    /\ shutdown_logs < MaxShutdownLogs
    /\ heap' = [heap EXCEPT ![i] = shutdown(@)]
    /\ shutdown_logs' = shutdown_logs + 1
    /\ ret' = Ret("shutdown", "return", i, "", NoLine, "info")
    /\ UNCHANGED <<sys_modules, environ, stack, import_state, IS_PYODIDE, IS_HEADLESS,
                   ServiceImpl, _instance, impl_instance, init_called, handed,
                   last_write, last_call_write, tpc, targ>>

Next ==
    \/ ImportService
    \/ \E sp \in ScriptPaths : FacadeInitialize(sp)
    \/ FacadeGetInstance
    \/ \E i \in DOMAIN heap, c \in Components : AppendComponent(i, c)
    \/ \E i \in DOMAIN heap : ClearComponents(i)
    \/ \E i \in DOMAIN heap, cid \in ClientIds, m \in Messages : HandleClientMessage(i, cid, m)
    \/ \E i \in DOMAIN heap, cid \in ClientIds : RegisterClient(i, cid)
    \/ \E i \in DOMAIN heap, cid \in ClientIds : UnregisterClient(i, cid)
    \/ \E i \in DOMAIN heap : Shutdown(i)

Spec == Init /\ [][Next]_vars

(***************************************************************************)
(* ScriptService.initialize called from several threads: one step per      *)
(* statement, so that calls interleave between statements.                 *)
(***************************************************************************)
\* initialize(script_path) is entered and line 26 tests cls._instance is None
TCall(t, script_path) ==
    /\ Ready
    /\ tpc[t] = "idle"
    /\ targ' = [targ EXCEPT ![t] = [script_path |-> script_path]]
    /\ tpc' = [tpc EXCEPT ![t] = IF _instance = 0 THEN "line27" ELSE "line31"]
    /\ init_called' = TRUE
    /\ UNCHANGED <<sys_modules, environ, stack, import_state, IS_PYODIDE, IS_HEADLESS,
                   ServiceImpl, _instance, heap, impl_instance, ret, shutdown_logs,
                   handed, last_write, last_call_write>>

\* line 27: cls._instance = cls()
TConstruct(t) ==
    /\ tpc[t] = "line27"
    /\ heap' = Append(heap, ScriptService_init)
    /\ _instance' = Len(heap) + 1
    /\ last_write' = Append(last_write, EmptyDict)
    /\ last_call_write' = Append(last_call_write, EmptyDict)
    /\ tpc' = [tpc EXCEPT ![t] = IF Truthy(targ[t].script_path) THEN "line29" ELSE "line31"]
    /\ UNCHANGED <<sys_modules, environ, stack, import_state, IS_PYODIDE, IS_HEADLESS,
                   ServiceImpl, impl_instance, ret, shutdown_logs, init_called, handed,
                   targ>>

\* line 29: cls._instance._script_path = script_path
TSetScriptPath(t) ==
    /\ tpc[t] = "line29"
    /\ heap' = [heap EXCEPT ![_instance]._script_path = targ[t].script_path]
    /\ tpc' = [tpc EXCEPT ![t] = "line30"]
    /\ UNCHANGED <<sys_modules, environ, stack, import_state, IS_PYODIDE, IS_HEADLESS,
                   ServiceImpl, _instance, impl_instance, ret, shutdown_logs,
                   init_called, handed, last_write, last_call_write, targ>>

\* line 30: cls._instance._initialize_data_manager(script_path)
TInitializeDataManager(t) ==
    /\ tpc[t] = "line30"
    /\ LET r == _initialize_data_manager(heap[_instance], targ[t].script_path)
       IN  /\ heap' = [heap EXCEPT ![_instance] = r.self]
           /\ IF r.exc = ""
              THEN /\ tpc' = [tpc EXCEPT ![t] = "line31"]
                   /\ ret' = ret
              ELSE /\ tpc' = [tpc EXCEPT ![t] = "done"]
                   /\ ret' = Ret("ScriptService.initialize", "raise", 0, r.exc, NoLine, r.log)
    /\ UNCHANGED <<sys_modules, environ, stack, import_state, IS_PYODIDE, IS_HEADLESS,
                   ServiceImpl, _instance, impl_instance, shutdown_logs, init_called,
                   handed, last_write, last_call_write, targ>>

\* line 31: return cls._instance
TReturn(t) ==
    /\ tpc[t] = "line31"
    /\ ret' = Ret("ScriptService.initialize", "return", _instance, "", NoLine, "")
    /\ handed' = handed \cup {_instance}
    /\ tpc' = [tpc EXCEPT ![t] = "done"]
    /\ UNCHANGED <<sys_modules, environ, stack, import_state, IS_PYODIDE, IS_HEADLESS,
                   ServiceImpl, _instance, heap, impl_instance, shutdown_logs,
                   init_called, last_write, last_call_write, targ>>

NextThreads ==
    \/ ImportService
    \/ \E t \in Threads, sp \in ScriptPaths : TCall(t, sp)
    \/ \E t \in Threads : TConstruct(t)
    \/ \E t \in Threads : TSetScriptPath(t)
    \/ \E t \in Threads : TInitializeDataManager(t)
    \/ \E t \in Threads : TReturn(t)
    \/ GetInstance

SpecThreads == Init /\ [][NextThreads]_vars

\* The detection for every combination of signals, and the facade on its result.
NextDetect ==
    \/ ImportService
    \/ \E sp \in ScriptPaths : FacadeInitialize(sp)
    \/ FacadeGetInstance

SpecDetect == InitDetect /\ [][NextDetect]_vars

(***************************************************************************)
(* interfaces/data.py on top of the facade, in a process whose ambient     *)
(* signals change after the import.                                        *)
(***************************************************************************)
CallerFiles == {None, "/job/run.py"}
EnvScriptPaths == {"unset", "/app/hello.py"}

\* os.environ.get(key)
environ_get(env, key) == IF key \in DOMAIN env /\ env[key] # "unset" THEN env[key] ELSE None

\* os.path.abspath on the caller files, which are absolute and normalised
abspath(p) == p

\* service.data_manager.connect() / .query(...) / .get_df(...): "" or the exception
data_manager_call(service) ==
    IF service.cls = "ScriptService" /\ service.data_manager.kind = None
    THEN "AttributeError" ELSE ""

\* The body of connect's try block up to the service it obtains:
\* [cls_instance, impl_instance, heap, outcome, inst, exc, log, initialized]
connect_service(env, impl, cur, other, h, caller_file) ==
    LET script_path == environ_get(env, "PRESWALD_SCRIPT_PATH")
        path == IF Truthy(script_path) THEN script_path
                ELSE IF Truthy(caller_file) THEN abspath(caller_file)
                ELSE None
    IN  IF environ_get(env, "PRESWALD_HEADLESS") = "1" /\ Truthy(path)
        THEN PreswaldService_initialize(impl, cur, other, h, path)
                @@ [initialized |-> TRUE]
        ELSE PreswaldService_get_instance(impl, cur, other)
                @@ [cls_instance |-> cur, impl_instance |-> other, heap |-> h, log |-> "",
                    initialized |-> FALSE]

\* The rest of connect once the try block has its service s or its exception:
\* service.data_manager.connect(), and the except clause that logs and returns None
connect_finish(env, out, s) ==
    [environ |-> env, cls_instance |-> s.cls_instance, impl_instance |-> s.impl_instance,
     heap |-> s.heap, outcome |-> "return", inst |-> s.inst, exc |-> "", out |-> out,
     log |-> IF s.outcome = "raise" \/ data_manager_call(s.heap[s.inst]) # ""
             THEN "error" ELSE "info",
     initialized |-> s.initialized]

\* if headless: os.environ["PRESWALD_HEADLESS"] = "1"
connect_environ(headless, env) ==
    IF headless THEN DictSet(env, "PRESWALD_HEADLESS", "1") ELSE env

\* connect(headless): [environ, cls_instance, impl_instance, heap, outcome, inst, exc,
\*                     out, log, initialized]
connect(headless, env, impl, cur, other, h, caller_file) ==
    connect_finish(connect_environ(headless, env),
                   IF headless
                   THEN <<"[Preswald] Running in headless mode (console output)">>
                   ELSE NoLine,
                   connect_service(connect_environ(headless, env), impl, cur, other, h,
                                   caller_file))

\* query(sql, source_name) and get_df(source_name, table_name): [outcome, inst, exc, log]
query(impl, cur, other, h) ==
    LET r == PreswaldService_get_instance(impl, cur, other)
        failed == IF r.outcome = "raise" THEN r.exc ELSE data_manager_call(h[r.inst])
    IN  [outcome |-> "return", inst |-> r.inst, exc |-> "",
         log |-> IF failed = "" THEN "info" ELSE "error"]

get_df(impl, cur, other, h) ==
    LET r == PreswaldService_get_instance(impl, cur, other)
        failed == IF r.outcome = "raise" THEN r.exc ELSE data_manager_call(h[r.inst])
    IN  [outcome |-> "return", inst |-> r.inst, exc |-> "",
         log |-> IF failed = "" THEN "info" ELSE "error"]

\* Every combination of the ambient signals, with or without PRESWALD_SCRIPT_PATH.
InitAmbient ==
    /\ \E p \in BOOLEAN, m \in MainModules, e \in HeadlessValues, f \in Stacks,
          s \in EnvScriptPaths :
          Signals([pyodide |-> p, main |-> m],
                  [PRESWALD_HEADLESS |-> e, PRESWALD_SCRIPT_PATH |-> s], f)
    /\ Fresh

\* import preswald.engine.service once more after its import failed
ReimportService ==
    /\ import_state \notin {"pending", "ok"}
    /\ LET r == Detect(sys_modules, environ, stack)
       IN  /\ import_state' = r.state
           /\ IS_PYODIDE' = r.IS_PYODIDE
           /\ IS_HEADLESS' = r.IS_HEADLESS
           /\ ServiceImpl' = r.ServiceImpl
    /\ UNCHANGED <<sys_modules, environ, stack, _instance, heap, impl_instance, ret,
                   shutdown_logs, init_called, handed, last_write, last_call_write, tpc, targ>>

\* os.environ["PRESWALD_HEADLESS"] = v, or del os.environ["PRESWALD_HEADLESS"]
SetEnvHeadless(v) ==
    /\ environ.PRESWALD_HEADLESS # v
    /\ environ' = [environ EXCEPT !.PRESWALD_HEADLESS = v]
    /\ UNCHANGED <<sys_modules, stack, import_state, IS_PYODIDE, IS_HEADLESS, ServiceImpl,
                   _instance, heap, impl_instance, ret, shutdown_logs, init_called, handed,
                   last_write, last_call_write, tpc, targ>>

\* import pyodide
LoadPyodide ==
    /\ ~sys_modules.pyodide
    /\ sys_modules' = [sys_modules EXCEPT !.pyodide = TRUE]
    /\ UNCHANGED <<environ, stack, import_state, IS_PYODIDE, IS_HEADLESS, ServiceImpl,
                   _instance, heap, impl_instance, ret, shutdown_logs, init_called, handed,
                   last_write, last_call_write, tpc, targ>>

\* The process after a connect call that came to r
Connected(headless, r) ==
    /\ environ' = r.environ
    /\ _instance' = r.cls_instance
    /\ impl_instance' = r.impl_instance
    /\ heap' = r.heap
    /\ ret' = Ret(IF headless THEN "connect(headless=True)" ELSE "connect",
                  r.outcome, r.inst, r.exc, r.out, r.log)
    /\ handed' = IF r.inst # 0 THEN handed \cup {r.inst} ELSE handed
    /\ last_write' = Constructed(r.heap, last_write)
    /\ last_call_write' = Constructed(r.heap, last_call_write)
    /\ init_called' = (init_called \/ r.initialized)

\* preswald.connect(headless) called from a script whose __file__ is caller_file
Connect(headless, caller_file) ==
    /\ Ready
    /\ Connected(headless, connect(headless, environ, ServiceImpl, _instance,
                                   impl_instance, heap, caller_file))
    /\ UNCHANGED <<sys_modules, stack, import_state, IS_PYODIDE, IS_HEADLESS, ServiceImpl,
                   shutdown_logs, tpc, targ>>

\* preswald.query(sql, source_name)
Query ==
    /\ Ready
    /\ LET r == query(ServiceImpl, _instance, impl_instance, heap)
       IN  /\ ret' = Ret("query", r.outcome, r.inst, r.exc, NoLine, r.log)
           /\ handed' = IF r.inst # 0 THEN handed \cup {r.inst} ELSE handed
    /\ UNCHANGED <<sys_modules, environ, stack, import_state, IS_PYODIDE, IS_HEADLESS,
                   ServiceImpl, _instance, heap, impl_instance, shutdown_logs,
                   init_called, last_write, last_call_write, tpc, targ>>

\* preswald.get_df(source_name, table_name)
GetDf ==
    /\ Ready
    /\ LET r == get_df(ServiceImpl, _instance, impl_instance, heap)
       IN  /\ ret' = Ret("get_df", r.outcome, r.inst, r.exc, NoLine, r.log)
           /\ handed' = IF r.inst # 0 THEN handed \cup {r.inst} ELSE handed
    /\ UNCHANGED <<sys_modules, environ, stack, import_state, IS_PYODIDE, IS_HEADLESS,
                   ServiceImpl, _instance, heap, impl_instance, shutdown_logs,
                   init_called, last_write, last_call_write, tpc, targ>>

NextAmbient ==
    \/ ImportService
    \/ ReimportService
    \/ \E v \in HeadlessValues : SetEnvHeadless(v)
    \/ LoadPyodide
    \/ \E sp \in ScriptPaths : FacadeInitialize(sp)
    \/ FacadeGetInstance
    \/ \E hl \in BOOLEAN, cf \in CallerFiles : Connect(hl, cf)
    \/ Query
    \/ GetDf

SpecAmbient == InitAmbient /\ [][NextAmbient]_vars

(***************************************************************************)
(* append_component, handle_client_message and get_component_state called  *)
(* from several threads on the one instance: one step per statement that   *)
(* touches shared state, the lock taken and released where the code does.  *)
(***************************************************************************)
StoreComponents ==
    { Dict([type |-> "slider", id |-> "a", label |-> "Speed", value |-> "1"]),
      Dict([type |-> "table", id |-> "b", value |-> "2", title |-> "Results", data |-> None]),
      Dict([type |-> "selectbox", label |-> "Pick", value |-> "1"]) }

StoreMessages ==
    { [type |-> "component_update", states |-> [a |-> "1", b |-> "2"]],
      [type |-> "component_update", states |-> [b |-> "1"]],
      [type |-> "ping", states |-> [a |-> "2"]] }

Defaults == {None}

\* Positions at which a thread is inside a with self._lock block.
InRegion == {"line94", "line156", "line178"}

Self == heap[_instance]
Idle(t) == Ready /\ Holds(_instance) /\ tpc[t] = "idle"
Appending == Cardinality({t \in Callers : tpc[t] = "line86"})

\* append_component(component) is entered
TAppendCall(t, component) ==
    /\ Idle(t)
    /\ Len(Self._rendered_components) + Appending < MaxHistory
    /\ tpc' = [tpc EXCEPT ![t] = "line86"]
    /\ targ' = [targ EXCEPT ![t] = [op |-> "append_component", component |-> component,
                                    wrote |-> {}]]
    /\ UNCHANGED <<sys_modules, environ, stack, import_state, IS_PYODIDE, IS_HEADLESS,
                   ServiceImpl, _instance, heap, impl_instance, ret, shutdown_logs,
                   init_called, handed, last_write, last_call_write>>

\* line 86: self._rendered_components.append(component)
TAppendRecord(t) ==
    /\ tpc[t] = "line86"
    /\ heap' = [heap EXCEPT ![_instance]._rendered_components =
                    Append(@, targ[t].component)]
    /\ tpc' = [tpc EXCEPT ![t] = "line89"]
    /\ UNCHANGED <<sys_modules, environ, stack, import_state, IS_PYODIDE, IS_HEADLESS,
                   ServiceImpl, _instance, impl_instance, ret, shutdown_logs, init_called,
                   handed, last_write, last_call_write, targ>>

\* lines 89-92: self._print_component(component), then the test for id and value;
\* a failed print goes to the except clause and the call is over
TAppendPrint(t) ==
    /\ tpc[t] = "line89"
    /\ tpc' = [tpc EXCEPT ![t] =
                  IF _print_component(targ[t].component) # RaisesLine
                     /\ HasIdAndValue(targ[t].component)
                  THEN "line93" ELSE "done"]
    /\ UNCHANGED <<sys_modules, environ, stack, import_state, IS_PYODIDE, IS_HEADLESS,
                   ServiceImpl, _instance, heap, impl_instance, ret, shutdown_logs,
                   init_called, handed, last_write, last_call_write, targ>>

\* lines 93, 155, 177: with self._lock
TAcquire(t) ==
    /\ tpc[t] \in {"line93", "line155", "line177"}
    /\ acquirable(Self)
    /\ heap' = [heap EXCEPT ![_instance]._lock = t]
    /\ tpc' = [tpc EXCEPT ![t] = CASE tpc[t] = "line93" -> "line94"
                                   [] tpc[t] = "line155" -> "line156"
                                   [] tpc[t] = "line177" -> "line178"]
    /\ UNCHANGED <<sys_modules, environ, stack, import_state, IS_PYODIDE, IS_HEADLESS,
                   ServiceImpl, _instance, impl_instance, ret, shutdown_logs, init_called,
                   handed, last_write, last_call_write, targ>>

\* line 94: self._component_states[component["id"]] = component["value"], and the
\* end of the with block
TAppendWrite(t) ==
    /\ tpc[t] = "line94"
    /\ LET d == targ[t].component.d
       IN  /\ heap' = [heap EXCEPT ![_instance]._component_states = DictSet(@, d.id, d.value),
                                   ![_instance]._lock = 0]
           /\ targ' = [targ EXCEPT ![t].wrote = @ \cup {<<d.id, d.value>>}]
    /\ tpc' = [tpc EXCEPT ![t] = "done"]
    /\ UNCHANGED <<sys_modules, environ, stack, import_state, IS_PYODIDE, IS_HEADLESS,
                   ServiceImpl, _instance, impl_instance, ret, shutdown_logs, init_called,
                   handed, last_write, last_call_write>>

\* handle_client_message(client_id, message) is entered: lines 175-176
THandleCall(t, client_id, message) ==
    /\ Idle(t)
    /\ tpc' = [tpc EXCEPT ![t] =
                  IF DictGet(message, "type", None) = "component_update"
                  THEN "line177" ELSE "done"]
    /\ targ' = [targ EXCEPT ![t] = [op |-> "handle_client_message",
                                    states |-> DictGet(message, "states", EmptyDict),
                                    wrote |-> {}]]
    /\ UNCHANGED <<sys_modules, environ, stack, import_state, IS_PYODIDE, IS_HEADLESS,
                   ServiceImpl, _instance, heap, impl_instance, ret, shutdown_logs,
                   init_called, handed, last_write, last_call_write>>

\* lines 178-179: one turn of the loop over states.items(); the with block ends
\* when no item is left
THandleItem(t) ==
    /\ tpc[t] = "line178"
    /\ LET states == targ[t].states
       IN  IF DOMAIN states = {}
           THEN /\ heap' = [heap EXCEPT ![_instance]._lock = 0]
                /\ tpc' = [tpc EXCEPT ![t] = "done"]
                /\ targ' = targ
           ELSE LET component_id == CHOOSE k \in DOMAIN states : TRUE
                    value == states[component_id]
                IN  /\ heap' = [heap EXCEPT ![_instance]._component_states =
                                    DictSet(@, component_id, value)]
                    /\ targ' = [targ EXCEPT
                                   ![t].states = [k \in DOMAIN states \ {component_id} |->
                                                     states[k]],
                                   ![t].wrote = @ \cup {<<component_id, value>>}]
                    /\ tpc' = tpc
    /\ UNCHANGED <<sys_modules, environ, stack, import_state, IS_PYODIDE, IS_HEADLESS,
                   ServiceImpl, _instance, impl_instance, ret, shutdown_logs, init_called,
                   handed, last_write, last_call_write>>

\* get_component_state(component_id, default) is entered
TGetCall(t, component_id, default) ==
    /\ Idle(t)
    /\ tpc' = [tpc EXCEPT ![t] = "line155"]
    /\ targ' = [targ EXCEPT ![t] = [op |-> "get_component_state",
                                    component_id |-> component_id, default |-> default]]
    /\ UNCHANGED <<sys_modules, environ, stack, import_state, IS_PYODIDE, IS_HEADLESS,
                   ServiceImpl, _instance, heap, impl_instance, ret, shutdown_logs,
                   init_called, handed, last_write, last_call_write>>

\* lines 156-158: value = self._component_states.get(component_id, default);
\* return value, which ends the with block
TGetRead(t) ==
    /\ tpc[t] = "line156"
    /\ targ' = [targ EXCEPT ![t] =
                   @ @@ [value |-> get_component_state(Self, @.component_id, @.default)]]
    /\ heap' = [heap EXCEPT ![_instance]._lock = 0]
    /\ tpc' = [tpc EXCEPT ![t] = "done"]
    /\ UNCHANGED <<sys_modules, environ, stack, import_state, IS_PYODIDE, IS_HEADLESS,
                   ServiceImpl, _instance, impl_instance, ret, shutdown_logs, init_called,
                   handed, last_write, last_call_write>>

NextStore ==
    \/ ImportService
    \/ FacadeInitialize(None)
    \/ \E t \in Callers, c \in StoreComponents : TAppendCall(t, c)
    \/ \E t \in Callers : TAppendRecord(t)
    \/ \E t \in Callers : TAppendPrint(t)
    \/ \E t \in Callers : TAcquire(t)
    \/ \E t \in Callers : TAppendWrite(t)
    \/ \E t \in Callers, cid \in ClientIds, m \in StoreMessages : THandleCall(t, cid, m)
    \/ \E t \in Callers : THandleItem(t)
    \/ \E t \in Callers, id \in Ids, d \in Defaults : TGetCall(t, id, d)
    \/ \E t \in Callers : TGetRead(t)

SpecStore == Init /\ [][NextStore]_vars

(***************************************************************************)
(* Properties.                                                             *)
(***************************************************************************)
Store(i) == heap[i]._component_states
Rows(i) == get_rendered_components(heap[i]).rows
Getters == {"PreswaldService.get_instance", "ScriptService.get_instance"}
Initializers == {"PreswaldService.initialize", "ScriptService.initialize"}
Answer(r) == [outcome |-> r.outcome, inst |-> r.inst, exc |-> r.exc]

C2_OneInstanceUnderThreads ==
    /\ Len(heap) <= 1
    /\ Cardinality(handed) <= 1

\* C3 as claimed: get_component_state(id, default) is the value carried by the most
\* recent writing call for id (an append_component of a mapping with id and value,
\* or a component_update naming id), else default.
C3_LastCallWins ==
    \A i \in DOMAIN heap : \A id \in Ids \cup {None} : \A default \in {None, "0"} :
        get_component_state(heap[i], id, default) = DictGet(last_call_write[i], id, default)

\* C3 amended: get_component_state(id, default) is the value of the most recent
\* write for id, where an append_component counts as a write only when printing
\* its component did not fail; default if there is none. A component_update
\* with states {a: 1, b: 2} leaves a = 1 and b = 2.
C3_LastWriteWins ==
    \A i \in DOMAIN heap : \A id \in Ids \cup {None} : \A default \in {None, "0"} :
        get_component_state(heap[i], id, default) = DictGet(last_write[i], id, default)

\* C3 witness: a component_update with states {a: 1, b: 2} was handled
C3_Witness ==
    /\ ret.op = "handle_client_message"
    /\ get_component_state(heap[ret.inst], "a", None) = "1"
    /\ get_component_state(heap[ret.inst], "b", None) = "2"
    /\ last_write[ret.inst] = [a |-> "1", b |-> "2"]

\* C4: append_component of a component lacking id or value leaves the component
\* state store unchanged and appends the component to the rendered history.
C4_NoIdOrValueKeepsStore ==
    [][\A i \in DOMAIN heap : \A c \in Components :
          (AppendComponent(i, c) /\ ~HasIdAndValue(c)) =>
              /\ heap'[i]._component_states = heap[i]._component_states
              /\ get_rendered_components(heap'[i]).rows = Append(Rows(i), c)]_vars

\* C4 witness: a component without a value was recorded while the store held values
C4_Witness ==
    /\ ret.op = "append_component"
    /\ Len(Rows(ret.inst)) > 0
    /\ ~HasIdAndValue(Rows(ret.inst)[Len(Rows(ret.inst))])
    /\ DOMAIN Store(ret.inst) # {}

\* C5: append_component always returns normally; a component whose printing does
\* not fail is printed, recorded and (with id and value) upserted, also after an
\* earlier component failed to print.
C5_AppendNeverPropagates ==
    [][\A i \in DOMAIN heap : \A c \in Components :
          AppendComponent(i, c) =>
              /\ ret'.outcome = "return"
              /\ get_rendered_components(heap'[i]).rows = Append(Rows(i), c)
              /\ _print_component(c) # RaisesLine =>
                    /\ ret'.out = _print_component(c)
                    /\ HasIdAndValue(c) =>
                          get_component_state(heap'[i], c.d.id, None) = c.d.value]_vars

\* C5 witness: a component failed to print, and the next one was printed and upserted
C5_Witness ==
    /\ ret.op = "append_component"
    /\ ret.outcome = "return"
    /\ Len(Rows(ret.inst)) = 2
    /\ _print_component(Rows(ret.inst)[1]) = RaisesLine
    /\ HasIdAndValue(Rows(ret.inst)[2])
    /\ ret.out = _print_component(Rows(ret.inst)[2])
    /\ get_component_state(heap[ret.inst], Rows(ret.inst)[2].d.id, None)
           = Rows(ret.inst)[2].d.value

\* C6: a failure constructing the data-access collaborator never raises out of
\* initialize(script_path): initialize returns the singleton holding the empty
\* collaborator, and that singleton answers register_client and append_component.
C6_DataManagerFailsSoft ==
    /\ ret.op \in Initializers =>
          /\ ret.outcome = "return"
          /\ ret.inst = _instance
          /\ ret.inst \in DOMAIN heap
          /\ heap[ret.inst].data_manager.kind # Raises
          /\ ret.log = "error" => heap[ret.inst].data_manager = EmptyDataManager
    /\ \A i \in DOMAIN heap :
          Truthy(heap[i]._script_path) => heap[i].data_manager.kind = "DataManager"
    /\ (ret.op \in {"register_client", "append_component"}
            /\ heap[ret.inst].data_manager = EmptyDataManager) =>
          ret.outcome = "return"

\* C6 witness: after the failed construction the singleton recorded a component and
\* answered register_client
C6_Witness ==
    /\ ret.op = "register_client"
    /\ ret.outcome = "return"
    /\ ret.inst = _instance
    /\ heap[ret.inst].data_manager = EmptyDataManager
    /\ Truthy(heap[ret.inst]._script_path)
    /\ Len(Rows(ret.inst)) > 0

\* C7: shutdown() never raises, leaves the instance shutting down, and the shutdown
\* event is logged at most once over the whole run.
C7_ShutdownIdempotent ==
    /\ ret.op = "shutdown" =>
          (ret.outcome = "return" /\ heap[ret.inst]._is_shutting_down)
    /\ shutdown_logs <= 1

\* C8: initialize() after the singleton has been shut down surfaces an error and
\* never returns the shut-down instance.
C8_NoInitializeAfterShutdown ==
    (ret.op \in Initializers /\ ret.outcome = "return") =>
        ~heap[ret.inst]._is_shutting_down

\* C9: once shutdown() has been called the instance never becomes active again, and
\* every later append_component and handle_client_message returns without raising
\* and leaves the component state store and the rendered history unchanged.
C9_ShutdownStopsWork ==
    [][\A i \in DOMAIN heap :
          heap[i]._is_shutting_down =>
              /\ heap'[i]._is_shutting_down
              /\ ((\E c \in Components : AppendComponent(i, c))
                  \/ (\E cid \in ClientIds, m \in Messages : HandleClientMessage(i, cid, m))) =>
                    /\ ret'.outcome = "return"
                    /\ heap'[i]._component_states = heap[i]._component_states
                    /\ heap'[i]._rendered_components = heap[i]._rendered_components]_vars

\* The implementation the priority rule names for the signals; None when it names none.
Implementations == {"VirtualPreswaldService", "ScriptService", "ServerPreswaldService"}
FallbackTriggers ==
    \E k \in DOMAIN stack :
        /\ stack[k].name = "__main__"
        /\ stack[k].co_filename # sys_modules.main

\* C10: for every combination of signals exactly one implementation is selected:
\* Virtual whenever the browser-interpreter marker is present; otherwise Headless
\* whenever PRESWALD_HEADLESS is "1"; Server only when neither holds and the
\* call-stack fallback does not trigger.
C10_SelectionByPriority ==
    import_state # "pending" =>
        /\ ServiceImpl \in Implementations
        /\ sys_modules.pyodide => ServiceImpl = "VirtualPreswaldService"
        /\ (~sys_modules.pyodide /\ environ.PRESWALD_HEADLESS = "1") =>
              ServiceImpl = "ScriptService"
        /\ ServiceImpl = "ServerPreswaldService" =>
              /\ ~sys_modules.pyodide
              /\ environ.PRESWALD_HEADLESS # "1"
              /\ ~FallbackTriggers

\* The server-entry module is loaded and its file is known.
MainFileKnown == sys_modules.main \notin {"absent", None}

\* C11: with no browser-interpreter marker and no headless signal the context is
\* Headless exactly when some __main__ frame's file differs from the server-entry
\* file; in every other case, also when the server-entry module is not loaded or
\* its file is unknown, classification completes without error and yields Server.
C11_FallbackDefaultsToServer ==
    (import_state # "pending" /\ ~sys_modules.pyodide /\ environ.PRESWALD_HEADLESS # "1") =>
        /\ import_state = "ok"
        /\ ServiceImpl = IF MainFileKnown /\ FallbackTriggers
                         THEN "ScriptService" ELSE "ServerPreswaldService"

FacadeOps == {"PreswaldService.initialize", "PreswaldService.get_instance"}

\* The singleton of the selected implementation: 0 when there is none.
SelectedInstance == IF ServiceImpl = "ScriptService" THEN _instance ELSE impl_instance

\* C12: once the import of engine/service.py has classified the process, no step
\* changes the classification (not setting or clearing PRESWALD_HEADLESS, not
\* loading pyodide, not a facade call), and every facade call is answered by the
\* implementation selected at the import.
C12_ClassifiedOnce ==
    [][import_state = "ok" =>
          /\ import_state' = "ok"
          /\ IS_PYODIDE' = IS_PYODIDE
          /\ IS_HEADLESS' = IS_HEADLESS
          /\ ServiceImpl' = ServiceImpl
          /\ (ret'.op \in FacadeOps /\ ret'.outcome = "return") =>
                /\ heap'[ret'.inst].cls = ServiceImpl
                /\ ret'.inst = SelectedInstance'
          /\ (ret'.op \in FacadeOps /\ ret'.outcome = "raise") =>
                ret'.op = "PreswaldService.get_instance"]_vars

\* C12 witness: the signals have changed since the import so that they now name
\* another implementation, and a facade call has returned an object.
C12_Witness ==
    /\ import_state = "ok"
    /\ Detect(sys_modules, environ, stack).ServiceImpl # ServiceImpl
    /\ sys_modules.pyodide /\ ~IS_PYODIDE
    /\ ret.op = "PreswaldService.initialize"
    /\ ret.outcome = "return"
    /\ heap[ret.inst].cls = ServiceImpl

\* C13: whatever context the process was classified as, the service that
\* connect(headless=True) initializes and uses is the Headless implementation.
C13_ConnectHeadlessIsHeadless ==
    (ret.op = "connect(headless=True)" /\ ret.inst # 0) =>
        heap[ret.inst].cls = "ScriptService"

DataInterfaceOps == {"connect", "query", "get_df"}

\* C14: while no initialize() has happened, get_instance and the data interface's
\* connect() (not headless), query() and get_df() end in an error their caller sees.
C14_NotInitializedSurfaced ==
    (~init_called /\ ret.op \in {"PreswaldService.get_instance"} \cup DataInterfaceOps) =>
        /\ ret.outcome = "raise"
        /\ ret.exc = "RuntimeError"

\* The threads inside a with self._lock block.
Inside == {t \in Callers : tpc[t] \in InRegion}

\* The values some write has written for an identifier so far.
WrittenFor(component_id) ==
    { w[2] : w \in { x \in UNION { targ[u].wrote :
                                     u \in {v \in Callers : "wrote" \in DOMAIN targ[v]} } :
                     x[1] = component_id } }

\* C15: every read and write of the component state store is made by the one thread
\* that holds the instance's lock, and a finished get_component_state(i, default)
\* has returned the default or a value that some write wrote for i.
C15_StoreAccessExclusive ==
    /\ Cardinality(Inside) <= 1
    /\ \A t \in Inside : heap[_instance]._lock = t
    /\ \A t \in Callers :
          (tpc[t] = "done" /\ targ[t].op = "get_component_state") =>
              \/ targ[t].value = targ[t].default
              \/ targ[t].value \in WrittenFor(targ[t].component_id)

\* C15 witness: a reader got a written value while a multi-item update, one item
\* written, holds the lock and another thread waits for it.
C15_Witness ==
    \E r, w \in Callers :
        /\ tpc[r] = "done" /\ targ[r].op = "get_component_state"
        /\ targ[r].value # targ[r].default
        /\ tpc[w] = "line178" /\ targ[w].wrote # {} /\ DOMAIN targ[w].states # {}

UpdateMessages == {m \in Messages : DictGet(m, "type", None) = "component_update"}

\* C16: get_rendered_components() gives {rows: h} with h the components appended
\* since the last clear_components() (or since construction) in call order: a new
\* object starts with no rows, append_component(c) extends the rows by c at the
\* end, clear_components() empties them, and no other call changes them.
C16_HistoryIsAppendsSinceClear ==
    [][/\ \A i \in DOMAIN heap' \ DOMAIN heap :
             get_rendered_components(heap'[i]) = [rows |-> <<>>]
       /\ \A i \in DOMAIN heap :
             /\ \A c \in Components :
                   AppendComponent(i, c) =>
                       get_rendered_components(heap'[i]) = [rows |-> Append(Rows(i), c)]
             /\ ClearComponents(i) => get_rendered_components(heap'[i]) = [rows |-> <<>>]
             /\ (~ClearComponents(i) /\ \A c \in Components : ~AppendComponent(i, c)) =>
                   get_rendered_components(heap'[i]) = [rows |-> Rows(i)]]_vars

\* C16 witness: two different components in the rows on an instance that has also
\* taken a client update (a = 2 comes from no component) and a shutdown.
C16_Witness ==
    \E i \in DOMAIN heap :
        /\ Holds(i)
        /\ ret.op = "append_component"
        /\ Len(Rows(i)) = 2
        /\ Rows(i)[1] # Rows(i)[2]
        /\ DictGet(Store(i), "a", None) = "2"
        /\ heap[i]._is_shutting_down

\* C17: clear_components() empties the rendered-component history and, for every
\* identifier, get_component_state answers after the call what it answered before.
C17_ClearKeepsStore ==
    [][\A i \in DOMAIN heap :
          ClearComponents(i) =>
              /\ Rows(i)' = <<>>
              /\ Store(i)' = Store(i)
              /\ \A id \in Ids, d \in {None, "0"} :
                    get_component_state(heap'[i], id, d) = get_component_state(heap[i], id, d)]_vars

\* C17 witness: clear_components() has returned on an instance whose store holds
\* values for both identifiers.
C17_Witness ==
    \E i \in DOMAIN heap :
        /\ ret.op = "clear_components"
        /\ ret.inst = i
        /\ Rows(i) = <<>>
        /\ DOMAIN Store(i) = Ids

\* C18: register_client returns None, unregister_client returns, and a
\* handle_client_message whose type is not component_update is ignored; none of
\* them raises and each leaves every object (state store, rendered-component
\* history, shutdown flag) as it was.
C18_StubsDoNothing ==
    [][\A i \in DOMAIN heap, cid \in ClientIds :
          /\ RegisterClient(i, cid) => register_client(heap[i], cid) = None
          /\ (\/ RegisterClient(i, cid)
              \/ UnregisterClient(i, cid)
              \/ \E m \in Messages \ UpdateMessages : HandleClientMessage(i, cid, m)) =>
                 /\ ret'.outcome = "return"
                 /\ heap' = heap
                 /\ Store(i)' = Store(i)
                 /\ Rows(i)' = Rows(i)
                 /\ heap'[i]._is_shutting_down = heap[i]._is_shutting_down]_vars

\* C18 witness: register_client has returned on an instance that holds state and
\* rendered components.
C18_Witness ==
    \E i \in DOMAIN heap :
        /\ ret.op = "register_client"
        /\ ret.outcome = "return"
        /\ ret.inst = i
        /\ Store(i) # EmptyDict
        /\ Rows(i) # <<>>

\* C19: initialize(script_path) on an existing singleton returns it and changes
\* nothing, whatever script_path is: script path and data manager stay as they are.
C19_InitializeOnExistingIsNoop ==
    [][\A sp \in ScriptPaths :
          (FacadeInitialize(sp) /\ _instance # 0) =>
              /\ ret'.outcome = "return"
              /\ ret'.inst = _instance
              /\ _instance' = _instance
              /\ heap' = heap
              /\ heap'[_instance]._script_path = heap[_instance]._script_path
              /\ heap'[_instance].data_manager = heap[_instance].data_manager]_vars

\* C19 witness: initialize has returned an instance that was made without a script
\* path and already holds rendered components; its data manager is still absent.
C19_Witness ==
    /\ ret.op = "PreswaldService.initialize"
    /\ ret.outcome = "return"
    /\ ret.inst = _instance
    /\ _instance # 0
    /\ Rows(_instance) # <<>>
    /\ heap[_instance]._script_path = None
    /\ heap[_instance].data_manager = NoDataManager

\* C20: an append_component whose print fails has recorded the component in the
\* rendered-component history, has not written its id/value pair to the state
\* store, and returns after logging the error.
C20_FailedPrintRecordsButSkipsStore ==
    [][\A i \in DOMAIN heap, c \in Components :
          (AppendComponent(i, c) /\ _print_component(c) = RaisesLine) =>
              /\ Rows(i)' = Append(Rows(i), c)
              /\ Store(i)' = Store(i)
              /\ ret'.outcome = "return"
              /\ ret'.log = "error"]_vars

\* C20 witness: the history holds a component with id and value whose print failed,
\* and the store has no value for its id.
C20_Witness ==
    \E i \in DOMAIN heap :
        \E k \in DOMAIN Rows(i) :
            /\ HasIdAndValue(Rows(i)[k])
            /\ _print_component(Rows(i)[k]) = RaisesLine
            /\ Rows(i)[k].d.id \notin DOMAIN Store(i)
            /\ ret.op = "append_component"
            /\ ret.log = "error"

====
